---- MODULE Spec2Model ----
(***************************************************************************)
(* A model of the anagent step scheduler (src/anagent.go, the snapshot     *)
(* that starts at line 247): the handler stack, the timer registry, the    *)
(* Start/Stop/RunLoop/Step lifecycle, the soonest-timer selection and the  *)
(* bookkeeping after a timer fired.                                        *)
(*                                                                         *)
(* One thread drives Step() (directly, through Start() or through          *)
(* RunLoop()); it is described by pc, mode and its locals.  The public     *)
(* registration and lifecycle calls (Use, Timer, TimerSeconds,             *)
(* RemoveTimer, SetDuration, Stop) are made by the host while the thread   *)
(* is idle or by other goroutines while it is stepping; each is one        *)
(* action.  The clock is the integer now, advanced by Tick.                *)
(***************************************************************************)
EXTENDS Integers, Sequences, FiniteSets, TLC

\* ------------------------------------------------------------ bounds
MaxTime     == 2      \* the clock runs over 0..MaxTime
MaxSeconds  == 1      \* timer delays and periods are 0..MaxSeconds
MaxHandlers == 2      \* length of the handler stack
MaxCalls    == 2      \* registration / lifecycle calls made in one run
Horizon     == 7      \* the clock of the recurring-timer scenario runs over 0..Horizon

TimerIDs == {"t1", "t2"}
Seconds  == 0..MaxSeconds

\* TestRecurringTimer's handler: "fired++; if fired > 4 { a.Stop() }"
StopAfter == 4

\* What a handler's body does when it is invoked.
\*   nop    returns                      stop   calls a.Stop()
\*   start  calls a.Start()              panic  panics
\*   countstop  increments count and calls a.Stop() once count > StopAfter
\*   use    calls a.Use(...)
\*   err    has a parameter the injector cannot resolve: a.Invoke returns an
\*          error without running the body, and the caller drops the error
StepKinds  == {"nop", "stop", "start", "panic"}
TimerKinds == {"nop", "stop", "panic"}

VARIABLES
    handlers,   \* a.handlers: the handler stack
    timers,     \* a.timers: map from TimerID to Timer
    Started,    \* a.Started
    BusyLoop,   \* a.BusyLoop
    mu,         \* a.Mutex is held
    now,        \* time.Now()
    pc,         \* where the stepping thread is
    mode,       \* the call the stepping thread is (or was last) in
    i,          \* runAll's loop index (1-based)
    mintimeid,  \* bestTimer's result / consumeTimer's argument
    mintime,
    result,     \* how the last Start/RunLoop/Step call ended
    calls,      \* number of registration / lifecycle calls made so far
    log,        \* history: step handlers invoked by the current Step
    stack0,     \* history: a.handlers when the current runAll took the lock
    firedNow,   \* history: timer handlers invoked by the current Step
    fired,      \* history: 1 once the timer now registered under an id was invoked
    dur,        \* history: "orig", "changed" by SetDuration, "used" by a reschedule
    stopInStep, \* history: a handler called Stop() during the current Step
    count,      \* the counter the "countstop" handler increments (the test's fired)
    fireTimes,  \* history: the clock at each invocation of the "countstop" handler
    late,       \* history: the clock advanced while the thread was not waiting
    callres,    \* how the last registration / lifecycle call ended: "ok", "invalid"
                \* (validateAndWrapHandler's panic) or "nil" (a nil dereference panic)
    acc,        \* the public call another task is in the middle of, or "none"
    pc2,        \* where a second task that calls Start() is
    stopInWait, \* history: Stop() came while the thread slept for a timer not yet due
    nextId,     \* history: the id of the timer the last Next() registered, or "none"
    nextSteps,  \* history: Step() calls begun since that Next()
    nextFired,  \* history: invocations of the handler of the timer nextId
    oldStack,   \* history: a.handlers when Handlers() was called
    newStack,   \* the arguments of the Handlers() call
    hpos        \* Handlers: 0 before the call, then the index of the next argument to Use

vars == <<handlers, timers, Started, BusyLoop, mu, now, pc, mode, i, mintimeid,
          mintime, result, calls, log, stack0, firedNow, fired, dur,
          stopInStep, count, fireTimes, late, callres, acc, pc2, stopInWait,
          nextId, nextSteps, nextFired, oldStack, newStack, hpos>>

test == <<count, fireTimes, late, acc, pc2, stopInWait, nextId, nextSteps, nextFired,
          oldStack, newStack, hpos>>

sched == <<pc, mode, i, mintimeid, mintime, result, log, stack0, firedNow, stopInStep>>

\* ------------------------------------------------------------ helpers
\* delete(a.timers, id)
Delete(ts, id) == [x \in (DOMAIN ts) \ {id} |-> ts[x]]

\* a.timers[id] = t
Put(ts, id, t) == [x \in (DOMAIN ts) \cup {id} |-> IF x = id THEN t ELSE ts[x]]

\* &Timer{handler: handler, time: ti, after: after, recurring: recurring}
NewTimer(ti, after, recurring, handler) ==
    [time |-> ti, after |-> after, recurring |-> recurring, handler |-> handler]

\* Timer: "id = TimerID(GetMD5Hash(time.Now().String()))": an id no live timer has
NewTimerID(ts) == IF "t1" \notin DOMAIN ts THEN "t1" ELSE "t2"

\* ------------------------------------------------------------ the code's decisions
\* Faulty variants of the decisions below; each one breaks a property
\* checked at the end of the module.
\* Start without its guard
AlreadyStartedIgnored(started) == FALSE

\* a loop that does not look at the flag again
IsStartedStale == TRUE

\* a loop bound that leaves the last handler out
runAllHasNextShort(idx, hs) == idx < Len(hs)

\* an Invoke whose error is fatal (runAll's "if err != nil && a.Fatal { panic(err) }"
\* with the flag on)
PanicsOnError(kind) == kind \in {"panic", "err"}

\* an Invoke that recovers
PanicsRecovered(kind) == FALSE

\* a due test that lets every timer through
NotYetDueNever(mt, clock) == FALSE

\* a validation that lets every value through
CallableAny(h) == TRUE

\* a scan that keeps RandTimer's pick
bestTimerNoScan(ts, rid, rtime) == {<<rid, rtime>>}

\* a reschedule from the previous due time
RescheduleFromDue(t, clock) == [t EXCEPT !.time = t.time + t.after]

\* a reschedule that does not add the period
RescheduleNow(t, clock) == [t EXCEPT !.time = clock]

\* a reschedule that leaves the due time where it was
RescheduleKeepsDue(t, clock) == t

\* a Step that goes on to the next timer
StepReturnDrain(m) == "RandTimer"

\* a RunLoop that tests the flag between two Steps, as Start does
StepReturnTestsFlag(m) ==
    IF m \in {"Start", "RunLoop"} THEN "IsStarted" ELSE "idle"

\* Start: "if a.Started == true { return }"
AlreadyStarted(started) == started = TRUE

\* IsStarted: returns a.Started (under StartedAccess)
IsStarted == Started

\* runAll: "for i < len(a.handlers)" (i is 1-based here)
runAllHasNext(idx, hs) == idx <= Len(hs)

\* a.Invoke(h) does not recover: a panic in the handler's body unwinds the caller
Panics(kind) == kind = "panic"

\* a.Started after a handler's body of the given kind ran
StartedAfter(kind, started) ==
    IF kind = "stop" THEN FALSE
    ELSE IF kind = "start" THEN TRUE
    ELSE started

\* validateAndWrapHandler: "if reflect.TypeOf(h).Kind() != reflect.Func { panic(...) }";
\* "notfunc" stands for a value that is not a function (the test's string)
Callable(h) == h # "notfunc"

\* SetDuration: "a.timers[id].after = after" dereferences a.timers[id], which
\* is nil for an id that is not in the map
NilTimer(ts, id) == id \notin DOMAIN ts

\* The body of a handler run by runAll, which holds the mutex, locks it
\* again: a.Use locks it, and so does a.Start through Step and runAll when the
\* scheduler is not started.  sync.Mutex is not reentrant.
LocksAgain(kind, started) ==
    kind = "use" \/ (kind = "start" /\ ~AlreadyStarted(started))

\* The public calls that take the mutex: Use does ("a.Lock(); defer
\* a.Unlock()"); Timer, RemoveTimer and SetDuration do not.
TakesLock(op) == op = "Use"

\* consumeTimer: "mintime.After(now)"
NotYetDue(mt, clock) == mt > clock

\* bestTimer's scan, started from RandTimer's pick (rid, rtime): the pairs
\* (mintimeid, mintime) it can return.  Only a timer strictly Before the
\* current minimum replaces it; the map is ranged over in any order, so among
\* the timers that share the earliest time any one can be the first visited.
bestTimerScan(ts, rid, rtime) ==
    LET earlier == {x \in DOMAIN ts : ts[x].time < rtime}
    IN  IF earlier = {} THEN {<<rid, rtime>>}
        ELSE {<<x, ts[x].time>> : x \in {y \in earlier :
                                   \A z \in earlier : ts[y].time <= ts[z].time}}

\* consumeTimer: "a.timers[id].time = time.Now().Add(a.timers[id].after)"
Reschedule(t, clock) == [t EXCEPT !.time = clock + t.after]

\* consumeTimer: reschedule a recurring timer, delete a one-shot one
Bookkeep(ts, id, clock) ==
    IF ts[id].recurring = TRUE
    THEN Put(ts, id, Reschedule(ts[id], clock))
    ELSE Delete(ts, id)

\* Where the thread goes when Step() returns: back to Start's loop test, to
\* RunLoop's next Step(), or to the caller of Step().
StepReturn(m) ==
    IF m = "Start" THEN "IsStarted"
    ELSE IF m = "RunLoop" THEN "runAll"
    ELSE "idle"

\* ------------------------------------------------------------ initial state
\* NewWithLogger: no handlers, no timers, not started, BusyLoop off
Init ==
    /\ handlers = <<>>
    /\ timers = [x \in {} |-> NewTimer(0, 0, FALSE, "nop")]
    /\ Started = FALSE
    /\ BusyLoop = FALSE
    /\ mu = FALSE
    /\ now = 0
    /\ pc = "idle"
    /\ mode = "none"
    /\ i = 1
    /\ mintimeid = "t1"
    /\ mintime = 0
    /\ result = "none"
    /\ calls = 0
    /\ log = <<>>
    /\ stack0 = <<>>
    /\ firedNow = 0
    /\ fired = [x \in TimerIDs |-> 0]
    /\ dur = [x \in TimerIDs |-> "orig"]
    /\ stopInStep = FALSE
    /\ count = 0
    /\ fireTimes = <<>>
    /\ late = FALSE
    /\ callres = "none"
    /\ acc = "none"
    /\ pc2 = "idle"
    /\ stopInWait = FALSE
    /\ nextId = "none"
    /\ nextSteps = 0
    /\ nextFired = 0
    /\ oldStack = <<>>
    /\ newStack = <<>>
    /\ hpos = 0

\* ------------------------------------------------------------ registration and lifecycle calls
\* Use: lock, validate, append, unlock (deferred, so also when validation panics)
Use(h) ==
    /\ calls < MaxCalls
    /\ Len(handlers) < MaxHandlers
    /\ mu = FALSE
    /\ handlers' = IF Callable(h) THEN Append(handlers, h) ELSE handlers
    /\ callres' = IF Callable(h) THEN "ok" ELSE "invalid"
    /\ calls' = calls + 1
    /\ UNCHANGED <<timers, Started, BusyLoop, mu, now, sched, fired, dur>>
    /\ UNCHANGED test

\* Timer: validate, then a.timers[id] = &Timer{...}; no lock is taken
Timer(tid, ti, after, recurring, handler) ==
    /\ calls < MaxCalls
    /\ IF Callable(handler)
       THEN /\ timers' = Put(timers, tid, NewTimer(ti, after, recurring, handler))
            /\ fired' = [fired EXCEPT ![tid] = 0]
            /\ dur' = [dur EXCEPT ![tid] = "orig"]
            /\ callres' = "ok"
       ELSE /\ callres' = "invalid"
            /\ UNCHANGED <<timers, fired, dur>>
    /\ calls' = calls + 1
    /\ UNCHANGED <<handlers, Started, BusyLoop, mu, now, sched>>
    /\ UNCHANGED test

\* TimerSeconds: validate, then
\* Timer(TimerID(""), time.Now().Add(dt), dt, recurring, handler);
\* the empty id makes Timer mint one
TimerSeconds(seconds, recurring, handler) ==
    /\ TimerIDs \ DOMAIN timers # {}
    /\ Timer(NewTimerID(timers), now + seconds, seconds, recurring, handler)

\* RemoveTimer: delete(a.timers, id); no lock is taken
RemoveTimer(id) ==
    /\ calls < MaxCalls
    /\ timers' = Delete(timers, id)
    /\ fired' = [fired EXCEPT ![id] = 0]
    /\ dur' = [dur EXCEPT ![id] = "orig"]
    /\ callres' = "ok"
    /\ calls' = calls + 1
    /\ UNCHANGED <<handlers, Started, BusyLoop, mu, now, sched>>
    /\ UNCHANGED test

\* a SetDuration that also moves the pending due time
SetDurationMovesDue(id, after) ==
    /\ calls < MaxCalls
    /\ id \in DOMAIN timers
    /\ timers' = [timers EXCEPT ![id].after = after, ![id].time = now + after]
    /\ dur' = [dur EXCEPT ![id] = IF timers[id].after = after THEN @ ELSE "changed"]
    /\ callres' = "ok"
    /\ calls' = calls + 1
    /\ UNCHANGED <<handlers, Started, BusyLoop, mu, now, sched, fired>>
    /\ UNCHANGED test

\* a SetDuration that makes the timer it does not find
SetDurationCreates(id, after) ==
    /\ calls < MaxCalls
    /\ timers' = IF id \in DOMAIN timers
                 THEN [timers EXCEPT ![id].after = after]
                 ELSE Put(timers, id, NewTimer(now + after, after, FALSE, "nop"))
    /\ callres' = "ok"
    /\ calls' = calls + 1
    /\ UNCHANGED <<handlers, Started, BusyLoop, mu, now, sched, fired, dur>>
    /\ UNCHANGED test

\* SetDuration (and Timer.After on GetTimer's result): a.timers[id].after = after;
\* a nil pointer dereference, a run-time panic, when the id is not in the map
SetDuration(id, after) ==
    /\ calls < MaxCalls
    /\ IF NilTimer(timers, id)
       THEN /\ callres' = "nil"
            /\ UNCHANGED <<timers, dur>>
       ELSE /\ timers' = [timers EXCEPT ![id].after = after]
            /\ dur' = [dur EXCEPT ![id] = IF timers[id].after = after THEN @ ELSE "changed"]
            /\ callres' = "ok"
    /\ calls' = calls + 1
    /\ UNCHANGED <<handlers, Started, BusyLoop, mu, now, sched, fired>>
    /\ UNCHANGED test

\* Stop: a.Started = false (under StartedAccess)
Stop ==
    /\ calls < MaxCalls
    /\ Started' = FALSE
    /\ callres' = "ok"
    /\ calls' = calls + 1
    /\ UNCHANGED <<handlers, timers, BusyLoop, mu, now, sched, fired, dur>>
    /\ UNCHANGED test

\* The clock advances.
Tick ==
    /\ now < MaxTime
    /\ now' = now + 1
    /\ UNCHANGED <<handlers, timers, Started, BusyLoop, mu, sched, calls, fired, dur>>
    /\ UNCHANGED <<test, callres>>

\* ------------------------------------------------------------ the stepping thread
InStep == {"runAll", "runAll_loop", "RandTimer", "bestTimer",
           "consumeTimer", "Sleep", "Invoke", "bookkeep"}

env == <<handlers, timers, Started, BusyLoop, mu, now, calls, fired, dur>>

\* The host calls Start(): return at once when already started, else set the
\* flag and loop
Start ==
    /\ pc = "idle"
    /\ mode' = "Start"
    /\ IF AlreadyStarted(Started)
       THEN /\ pc' = "idle"
            /\ result' = "returned"
            /\ UNCHANGED Started
       ELSE /\ pc' = "IsStarted"
            /\ result' = "none"
            /\ Started' = TRUE
    /\ stopInStep' = FALSE
    /\ UNCHANGED <<handlers, timers, BusyLoop, mu, now, calls, fired, dur,
                   i, mintimeid, mintime, log, stack0, firedNow>>
    /\ UNCHANGED <<test, callres>>

\* The host calls RunLoop(): "for { a.Step() }"
RunLoop ==
    /\ pc = "idle"
    /\ pc' = "runAll"
    /\ mode' = "RunLoop"
    /\ result' = "none"
    /\ stopInStep' = FALSE
    /\ UNCHANGED <<env, i, mintimeid, mintime, log, stack0, firedNow>>
    /\ UNCHANGED <<test, callres>>

\* The host calls Step()
Step ==
    /\ pc = "idle"
    /\ pc' = "runAll"
    /\ mode' = "Step"
    /\ result' = "none"
    /\ stopInStep' = FALSE
    /\ UNCHANGED <<env, i, mintimeid, mintime, log, stack0, firedNow>>
    /\ UNCHANGED <<test, callres>>

\* Start: "for a.IsStarted() { a.Step() }"
StartLoop ==
    /\ pc = "IsStarted"
    /\ IF IsStarted
       THEN /\ pc' = "runAll"
            /\ UNCHANGED result
       ELSE /\ pc' = "idle"
            /\ result' = "returned"
    /\ UNCHANGED <<env, mode, i, mintimeid, mintime, log, stack0, firedNow, stopInStep>>
    /\ UNCHANGED <<test, callres>>

\* runAll: a.Lock(); defer a.Unlock(); i = 0
runAll ==
    /\ pc = "runAll"
    /\ mu = FALSE
    /\ mu' = TRUE
    /\ pc' = "runAll_loop"
    /\ i' = 1
    /\ log' = <<>>
    /\ stack0' = handlers
    /\ firedNow' = 0
    /\ stopInStep' = FALSE
    /\ UNCHANGED <<handlers, timers, Started, BusyLoop, now, calls, fired, dur,
                   mode, mintimeid, mintime, result>>
    /\ UNCHANGED <<test, callres>>

\* runAll's loop: a.Invoke(a.handlers[i]); i++.  The lock is held throughout.
\* A handler that panics unwinds runAll (the deferred Unlock runs), Step and
\* Start/RunLoop.  A handler that calls Start() on a scheduler that is not
\* started enters Start's loop inside the handler: its Step() calls runAll,
\* which locks the mutex this thread already holds, and blocks for ever; so
\* does a handler that calls Use().
runAllInvoke ==
    /\ pc = "runAll_loop"
    /\ runAllHasNext(i, handlers)
    /\ LET h == handlers[i] IN
       /\ log' = Append(log, h)
       /\ stopInStep' = (stopInStep \/ h = "stop")
       /\ IF Panics(h)
          THEN /\ mu' = FALSE
               /\ pc' = "idle"
               /\ result' = "panic"
               /\ UNCHANGED <<Started, i>>
          ELSE IF LocksAgain(h, Started)
          THEN /\ pc' = "blocked"
               /\ Started' = StartedAfter(h, Started)
               /\ UNCHANGED <<mu, result, i>>
          ELSE /\ pc' = "runAll_loop"
               /\ i' = i + 1
               /\ Started' = StartedAfter(h, Started)
               /\ UNCHANGED <<mu, result>>
    /\ UNCHANGED <<handlers, timers, BusyLoop, now, calls, fired, dur,
                   mode, mintimeid, mintime, stack0, firedNow>>
    /\ UNCHANGED <<test, callres>>

\* runAll returns (the deferred a.Unlock()) and Step reads the registry's
\* size: "if len(a.timers) == 0 { return }"
runAllDone ==
    /\ pc = "runAll_loop"
    /\ ~runAllHasNext(i, handlers)
    /\ mu' = FALSE
    /\ pc' = IF DOMAIN timers = {} THEN StepReturn(mode) ELSE "RandTimer"
    /\ result' = IF DOMAIN timers = {} /\ StepReturn(mode) = "idle" THEN "returned" ELSE result
    /\ UNCHANGED <<handlers, timers, Started, BusyLoop, now, calls, fired, dur,
                   mode, i, mintimeid, mintime, log, stack0, firedNow, stopInStep>>
    /\ UNCHANGED <<test, callres>>

\* bestTimer: "mintimeid, timer := RandTimer(a.timers); mintime := timer.time",
\* before the lock is taken.  On an empty map there is no timer to read.
RandTimer ==
    /\ pc = "RandTimer"
    /\ IF DOMAIN timers = {}
       THEN /\ pc' = "idle"
            /\ result' = "panic"
            /\ UNCHANGED <<mintimeid, mintime>>
       ELSE /\ \E rid \in DOMAIN timers :
                 /\ mintimeid' = rid
                 /\ mintime' = timers[rid].time
            /\ pc' = "bestTimer"
            /\ UNCHANGED result
    /\ UNCHANGED <<env, mode, i, log, stack0, firedNow, stopInStep>>
    /\ UNCHANGED <<test, callres>>

\* bestTimer: a.Lock(); the scan; a.Unlock()
bestTimer ==
    /\ pc = "bestTimer"
    /\ mu = FALSE
    /\ \E r \in bestTimerScan(timers, mintimeid, mintime) :
         /\ mintimeid' = r[1]
         /\ mintime' = r[2]
    /\ pc' = "consumeTimer"
    /\ UNCHANGED <<env, mode, i, result, log, stack0, firedNow, stopInStep>>
    /\ UNCHANGED <<test, callres>>

\* consumeTimer: now := time.Now(); sleep until mintime, or return in BusyLoop
consumeTimer ==
    /\ pc = "consumeTimer"
    /\ pc' = IF NotYetDue(mintime, now)
             THEN (IF ~BusyLoop THEN "Sleep" ELSE StepReturn(mode))
             ELSE "Invoke"
    /\ result' = IF NotYetDue(mintime, now) /\ BusyLoop /\ StepReturn(mode) = "idle"
                 THEN "returned" ELSE result
    /\ UNCHANGED <<env, mode, i, mintimeid, mintime, log, stack0, firedNow, stopInStep>>
    /\ UNCHANGED <<test, callres>>

\* a sleep that Stop() cuts short
SleepInterruptible ==
    /\ pc = "Sleep"
    /\ ~NotYetDue(mintime, now) \/ ~Started
    /\ pc' = "Invoke"
    /\ UNCHANGED <<env, mode, i, mintimeid, mintime, result, log, stack0, firedNow, stopInStep>>
    /\ UNCHANGED <<test, callres>>

\* time.Sleep(mintime.Sub(now)) returns once that long has passed
Sleep ==
    /\ pc = "Sleep"
    /\ ~NotYetDue(mintime, now)
    /\ pc' = "Invoke"
    /\ UNCHANGED <<env, mode, i, mintimeid, mintime, result, log, stack0, firedNow, stopInStep>>
    /\ UNCHANGED <<test, callres>>

\* consumeTimer: a.Invoke(a.timers[*mintimeid].handler), outside the lock.
\* a.timers[id] is nil when the timer is gone: reading .handler panics.
Invoke ==
    /\ pc = "Invoke"
    /\ IF mintimeid \notin DOMAIN timers
       THEN /\ pc' = "idle"
            /\ result' = "panic"
            /\ UNCHANGED <<Started, firedNow, fired, stopInStep, count, fireTimes, nextFired>>
       ELSE LET h == timers[mintimeid].handler IN
            /\ firedNow' = IF firedNow < 2 THEN firedNow + 1 ELSE 2
            /\ fired' = [fired EXCEPT ![mintimeid] = 1]
            /\ count' = IF h = "countstop" THEN count + 1 ELSE count
            /\ fireTimes' = IF h = "countstop" THEN Append(fireTimes, now) ELSE fireTimes
            /\ nextFired' = IF mintimeid = nextId /\ nextFired < 2 THEN nextFired + 1
                             ELSE nextFired
            /\ stopInStep' = (stopInStep \/ h = "stop" \/ (h = "countstop" /\ count' > StopAfter))
            /\ IF Panics(h)
               THEN /\ pc' = "idle"
                    /\ result' = "panic"
                    /\ UNCHANGED Started
               ELSE /\ pc' = "bookkeep"
                    /\ Started' = IF h = "countstop"
                                  THEN (IF count' > StopAfter THEN FALSE ELSE Started)
                                  ELSE StartedAfter(h, Started)
                    /\ UNCHANGED result
    /\ UNCHANGED <<late, callres, acc, pc2, stopInWait, nextId, nextSteps, oldStack, newStack, hpos>>
    /\ UNCHANGED <<handlers, timers, BusyLoop, mu, now, calls, dur,
                   mode, i, mintimeid, mintime, log, stack0>>

\* consumeTimer: a.Lock(); defer a.Unlock(); reschedule or delete.
\* a.timers[id].recurring panics when the timer is gone.
bookkeep ==
    /\ pc = "bookkeep"
    /\ mu = FALSE
    /\ IF mintimeid \notin DOMAIN timers
       THEN /\ pc' = "idle"
            /\ result' = "panic"
            /\ UNCHANGED <<timers, fired, dur>>
       ELSE /\ timers' = Bookkeep(timers, mintimeid, now)
            /\ fired' = [fired EXCEPT ![mintimeid] =
                             IF mintimeid \in DOMAIN timers' THEN @ ELSE 0]
            /\ dur' = [dur EXCEPT ![mintimeid] =
                             IF mintimeid \notin DOMAIN timers' THEN "orig"
                             ELSE IF @ = "changed" THEN "used" ELSE @]
            /\ pc' = StepReturn(mode)
            /\ result' = IF StepReturn(mode) = "idle" THEN "returned" ELSE result
    /\ UNCHANGED <<handlers, Started, BusyLoop, mu, now, calls,
                   mode, i, mintimeid, mintime, log, stack0, firedNow, stopInStep>>
    /\ UNCHANGED <<test, callres>>

\* ------------------------------------------------------------ specification
Next ==
    \/ \E h \in StepKinds : Use(h)
    \/ \E s \in Seconds, r \in BOOLEAN, h \in TimerKinds : TimerSeconds(s, r, h)
    \/ \E id \in TimerIDs : RemoveTimer(id)
    \/ \E id \in DOMAIN timers, s \in Seconds : SetDuration(id, s)
    \/ Stop
    \/ Tick
    \/ Start
    \/ RunLoop
    \/ Step
    \/ StartLoop
    \/ runAll
    \/ runAllInvoke
    \/ runAllDone
    \/ RandTimer
    \/ bestTimer
    \/ consumeTimer
    \/ Sleep
    \/ Invoke
    \/ bookkeep

Spec == Init /\ [][Next]_vars

\* ------------------------------------------------------------ the recurring-timer scenario
\* TestRecurringTimer: New(); AddRecurringTimerSeconds(1, countstop) at clock 0;
\* then one Start().  No handlers, no other timers, no other calls.
Period == 1

InitRecurring ==
    /\ handlers = <<>>
    /\ timers = [x \in {"t1"} |-> NewTimer(0 + Period, Period, TRUE, "countstop")]
    /\ Started = FALSE
    /\ BusyLoop = FALSE
    /\ mu = FALSE
    /\ now = 0
    /\ pc = "idle"
    /\ mode = "none"
    /\ i = 1
    /\ mintimeid = "t1"
    /\ mintime = 0
    /\ result = "none"
    /\ calls = 0
    /\ log = <<>>
    /\ stack0 = <<>>
    /\ firedNow = 0
    /\ fired = [x \in TimerIDs |-> 0]
    /\ dur = [x \in TimerIDs |-> "orig"]
    /\ stopInStep = FALSE
    /\ count = 0
    /\ fireTimes = <<>>
    /\ late = FALSE
    /\ callres = "none"
    /\ acc = "none"
    /\ pc2 = "idle"
    /\ stopInWait = FALSE
    /\ nextId = "none"
    /\ nextSteps = 0
    /\ nextFired = 0
    /\ oldStack = <<>>
    /\ newStack = <<>>
    /\ hpos = 0

\* the test's single agent.Start()
StartOnce ==
    /\ result = "none"
    /\ Start

\* The clock advances; late records that it did so while the thread was
\* doing something else than sleeping, or was sleeping longer than it asked.
TickRecurring ==
    /\ now < Horizon
    /\ now' = now + 1
    /\ late' = (late \/ pc # "Sleep" \/ ~NotYetDue(mintime, now))
    /\ UNCHANGED <<handlers, timers, Started, BusyLoop, mu, sched, calls, fired, dur,
                   count, fireTimes, callres, acc, pc2, stopInWait, nextId, nextSteps,
                   nextFired, oldStack, newStack, hpos>>

NextRecurring ==
    \/ StartOnce
    \/ StartLoop
    \/ runAll
    \/ runAllDone
    \/ RandTimer
    \/ bestTimer
    \/ consumeTimer
    \/ Sleep
    \/ Invoke
    \/ bookkeep
    \/ TickRecurring

SpecRecurring == InitRecurring /\ [][NextRecurring]_vars

\* ------------------------------------------------------------ failing handlers
\* Handlers whose invocation fails, by an Invoke error or by a panic, driven
\* by Step() or Start().
FailKinds == {"nop", "err", "panic"}

NextFailures ==
    \/ \E h \in FailKinds : Use(h)
    \/ \E s \in Seconds, r \in BOOLEAN, h \in FailKinds \ {"nop"} : TimerSeconds(s, r, h)
    \/ Tick
    \/ Start
    \/ Step
    \/ StartLoop
    \/ runAll
    \/ runAllInvoke
    \/ runAllDone
    \/ RandTimer
    \/ bestTimer
    \/ consumeTimer
    \/ Sleep
    \/ Invoke
    \/ bookkeep

SpecFailures == Init /\ [][NextFailures]_vars

\* ------------------------------------------------------------ busy-loop mode
\* TestNext: "agent := New(); agent.BusyLoop = true"
InitBusyLoop ==
    /\ handlers = <<>>
    /\ timers = [x \in {} |-> NewTimer(0, 0, FALSE, "nop")]
    /\ Started = FALSE
    /\ BusyLoop = TRUE
    /\ mu = FALSE
    /\ now = 0
    /\ pc = "idle"
    /\ mode = "none"
    /\ i = 1
    /\ mintimeid = "t1"
    /\ mintime = 0
    /\ result = "none"
    /\ calls = 0
    /\ log = <<>>
    /\ stack0 = <<>>
    /\ firedNow = 0
    /\ fired = [x \in TimerIDs |-> 0]
    /\ dur = [x \in TimerIDs |-> "orig"]
    /\ stopInStep = FALSE
    /\ count = 0
    /\ fireTimes = <<>>
    /\ late = FALSE
    /\ callres = "none"
    /\ acc = "none"
    /\ pc2 = "idle"
    /\ stopInWait = FALSE
    /\ nextId = "none"
    /\ nextSteps = 0
    /\ nextFired = 0
    /\ oldStack = <<>>
    /\ newStack = <<>>
    /\ hpos = 0

\* time.Sleep is never reached in this mode
NextBusyLoop ==
    \/ \E h \in {"nop"} : Use(h)
    \/ \E s \in Seconds, r \in BOOLEAN, h \in {"nop", "stop"} : TimerSeconds(s, r, h)
    \/ \E id \in TimerIDs : RemoveTimer(id)
    \/ Tick
    \/ Start
    \/ Step
    \/ StartLoop
    \/ runAll
    \/ runAllInvoke
    \/ runAllDone
    \/ RandTimer
    \/ bestTimer
    \/ consumeTimer
    \/ Invoke
    \/ bookkeep

SpecBusyLoop == InitBusyLoop /\ [][NextBusyLoop]_vars

\* ------------------------------------------------------------ registration calls that fail
\* Calls with a value that is not a function and SetDuration on any id, made
\* while the thread is idle or stepping.
Values == {"nop", "notfunc"}

NextRegistration ==
    \/ \E h \in Values : Use(h)
    \/ \E s \in Seconds, r \in BOOLEAN, h \in Values : TimerSeconds(s, r, h)
    \/ \E id \in TimerIDs, s \in Seconds, r \in BOOLEAN, h \in Values :
          Timer(id, now + s, s, r, h)
    \/ \E id \in TimerIDs, s \in Seconds : SetDuration(id, s)
    \/ Tick
    \/ Step
    \/ runAll
    \/ runAllInvoke
    \/ runAllDone
    \/ RandTimer
    \/ bestTimer
    \/ consumeTimer
    \/ Sleep
    \/ Invoke
    \/ bookkeep

SpecRegistration == Init /\ [][NextRegistration]_vars

\* ------------------------------------------------------------ the mutex
\* The public calls of another task and the thread's two critical sections
\* after runAll, each taken apart into its beginning and its end, so that a
\* state shows who is inside the registry or the stack.
Ops == {"Use", "Timer", "RemoveTimer", "SetDuration"}

RegistryWriters == {"Timer", "RemoveTimer", "SetDuration"}

\* Another task enters a public call; Use waits for the mutex first.
CallBegin(op) ==
    /\ acc = "none"
    /\ calls < MaxCalls
    /\ TakesLock(op) => mu = FALSE
    /\ op = "Use" => Len(handlers) < MaxHandlers
    /\ op = "Timer" => TimerIDs \ DOMAIN timers # {}
    /\ acc' = op
    /\ mu' = IF TakesLock(op) THEN TRUE ELSE mu
    /\ calls' = calls + 1
    /\ UNCHANGED <<handlers, timers, Started, BusyLoop, now, sched, fired, dur,
                   count, fireTimes, late, callres, pc2, stopInWait, nextId, nextSteps,
                   nextFired, oldStack, newStack, hpos>>

\* The call writes and returns; Use's deferred Unlock releases the mutex.
CallEnd ==
    /\ acc # "none"
    /\ acc' = "none"
    /\ mu' = IF TakesLock(acc) THEN FALSE ELSE mu
    /\ \/ /\ acc = "Use"
          /\ \E h \in {"nop", "use"} : handlers' = Append(handlers, h)
          /\ callres' = "ok"
          /\ UNCHANGED <<timers, fired, dur>>
       \/ /\ acc = "Timer"
          /\ \E s \in Seconds, r \in BOOLEAN :
                timers' = Put(timers, NewTimerID(timers), NewTimer(now + s, s, r, "nop"))
          /\ fired' = [fired EXCEPT ![NewTimerID(timers)] = 0]
          /\ dur' = [dur EXCEPT ![NewTimerID(timers)] = "orig"]
          /\ callres' = "ok"
          /\ UNCHANGED handlers
       \/ /\ acc = "RemoveTimer"
          /\ \E id \in TimerIDs :
                /\ timers' = Delete(timers, id)
                /\ fired' = [fired EXCEPT ![id] = 0]
                /\ dur' = [dur EXCEPT ![id] = "orig"]
          /\ callres' = "ok"
          /\ UNCHANGED handlers
       \/ /\ acc = "SetDuration"
          /\ \E id \in TimerIDs, s \in Seconds :
                IF NilTimer(timers, id)
                THEN /\ callres' = "nil"
                     /\ UNCHANGED <<timers, dur>>
                ELSE /\ timers' = [timers EXCEPT ![id].after = s]
                     /\ dur' = [dur EXCEPT ![id] =
                                   IF timers[id].after = s THEN @ ELSE "changed"]
                     /\ callres' = "ok"
          /\ UNCHANGED <<handlers, fired>>
    /\ UNCHANGED <<Started, BusyLoop, now, calls, sched, count, fireTimes, late, pc2,
                   stopInWait, nextId, nextSteps, nextFired, oldStack, newStack, hpos>>

\* bestTimer: a.Lock()
bestTimerLock ==
    /\ pc = "bestTimer"
    /\ mu = FALSE
    /\ mu' = TRUE
    /\ pc' = "bestTimer_locked"
    /\ UNCHANGED <<handlers, timers, Started, BusyLoop, now, calls, fired, dur,
                   mode, i, mintimeid, mintime, result, log, stack0, firedNow, stopInStep>>
    /\ UNCHANGED <<test, callres>>

\* bestTimer: the scan and the deferred a.Unlock().  A scan that overlaps
\* an unlocked write of the map is a data race: the run time may end the
\* program ("concurrent map iteration and map write").
bestTimerUnlock ==
    /\ pc = "bestTimer_locked"
    /\ mu' = FALSE
    /\ \/ /\ \E r \in bestTimerScan(timers, mintimeid, mintime) :
                /\ mintimeid' = r[1]
                /\ mintime' = r[2]
          /\ pc' = "consumeTimer"
          /\ UNCHANGED result
       \/ /\ acc \in RegistryWriters
          /\ pc' = "idle"
          /\ result' = "panic"
          /\ UNCHANGED <<mintimeid, mintime>>
    /\ UNCHANGED <<handlers, timers, Started, BusyLoop, now, calls, fired, dur,
                   mode, i, log, stack0, firedNow, stopInStep>>
    /\ UNCHANGED <<test, callres>>

\* consumeTimer: a.Lock() after the handler returned
bookkeepLock ==
    /\ pc = "bookkeep"
    /\ mu = FALSE
    /\ mu' = TRUE
    /\ pc' = "bookkeep_locked"
    /\ UNCHANGED <<handlers, timers, Started, BusyLoop, now, calls, fired, dur,
                   mode, i, mintimeid, mintime, result, log, stack0, firedNow, stopInStep>>
    /\ UNCHANGED <<test, callres>>

\* consumeTimer: reschedule or delete, and the deferred a.Unlock()
bookkeepUnlock ==
    /\ pc = "bookkeep_locked"
    /\ mu' = FALSE
    /\ IF mintimeid \notin DOMAIN timers
       THEN /\ pc' = "idle"
            /\ result' = "panic"
            /\ UNCHANGED <<timers, fired, dur>>
       ELSE /\ timers' = Bookkeep(timers, mintimeid, now)
            /\ fired' = [fired EXCEPT ![mintimeid] =
                             IF mintimeid \in DOMAIN timers' THEN @ ELSE 0]
            /\ dur' = [dur EXCEPT ![mintimeid] =
                             IF mintimeid \notin DOMAIN timers' THEN "orig"
                             ELSE IF @ = "changed" THEN "used" ELSE @]
            /\ pc' = StepReturn(mode)
            /\ result' = IF StepReturn(mode) = "idle" THEN "returned" ELSE result
    /\ UNCHANGED <<handlers, Started, BusyLoop, now, calls,
                   mode, i, mintimeid, mintime, log, stack0, firedNow, stopInStep>>
    /\ UNCHANGED <<test, callres>>

NextLock ==
    \/ \E op \in Ops : CallBegin(op)
    \/ CallEnd
    \/ Tick
    \/ Step
    \/ runAll
    \/ runAllInvoke
    \/ runAllDone
    \/ RandTimer
    \/ bestTimerLock
    \/ bestTimerUnlock
    \/ consumeTimer
    \/ Sleep
    \/ Invoke
    \/ bookkeepLock
    \/ bookkeepUnlock

SpecLock == Init /\ [][NextLock]_vars

\* ------------------------------------------------------------ two tasks call Start()
\* A second task calls Start() on the same scheduler, which has no handlers
\* and no timers: its Step() is runAll (lock, nothing to invoke, unlock) and
\* the return at "len(a.timers) == 0".  Start reads and writes a.Started in
\* two statements, with no lock.
Looping == {"IsStarted", "runAll", "runAll_loop"}

\* Start: "if a.Started == true { return }"
Start2Check ==
    /\ pc2 = "idle"
    /\ pc2' = IF AlreadyStarted(Started) THEN "returned" ELSE "checked"
    /\ UNCHANGED <<handlers, timers, Started, BusyLoop, mu, now, calls, fired, dur,
                   sched, count, fireTimes, late, callres, acc, stopInWait, nextId, nextSteps,
                   nextFired, oldStack, newStack, hpos>>

\* Start: "a.Started = true"
Start2Set ==
    /\ pc2 = "checked"
    /\ Started' = TRUE
    /\ pc2' = "IsStarted"
    /\ UNCHANGED <<handlers, timers, BusyLoop, mu, now, calls, fired, dur,
                   sched, count, fireTimes, late, callres, acc, stopInWait, nextId, nextSteps,
                   nextFired, oldStack, newStack, hpos>>

\* Start: "for a.IsStarted() { a.Step() }"
Start2Loop ==
    /\ pc2 = "IsStarted"
    /\ pc2' = IF IsStarted THEN "runAll" ELSE "returned"
    /\ UNCHANGED <<handlers, timers, Started, BusyLoop, mu, now, calls, fired, dur,
                   sched, count, fireTimes, late, callres, acc, stopInWait, nextId, nextSteps,
                   nextFired, oldStack, newStack, hpos>>

\* runAll: a.Lock()
runAll2 ==
    /\ pc2 = "runAll"
    /\ mu = FALSE
    /\ mu' = TRUE
    /\ pc2' = "runAll_loop"
    /\ UNCHANGED <<handlers, timers, Started, BusyLoop, now, calls, fired, dur,
                   sched, count, fireTimes, late, callres, acc, stopInWait, nextId, nextSteps,
                   nextFired, oldStack, newStack, hpos>>

\* runAll returns (there is no handler) and Step returns (there is no timer)
runAll2Done ==
    /\ pc2 = "runAll_loop"
    /\ ~runAllHasNext(1, handlers)
    /\ DOMAIN timers = {}
    /\ mu' = FALSE
    /\ pc2' = "IsStarted"
    /\ UNCHANGED <<handlers, timers, Started, BusyLoop, now, calls, fired, dur,
                   sched, count, fireTimes, late, callres, acc, stopInWait, nextId, nextSteps,
                   nextFired, oldStack, newStack, hpos>>

NextTwoStarts ==
    \/ Start
    \/ StartLoop
    \/ runAll
    \/ runAllDone
    \/ Start2Check
    \/ Start2Set
    \/ Start2Loop
    \/ runAll2
    \/ runAll2Done
    \/ Stop
    \/ Tick

SpecTwoStarts == Init /\ [][NextTwoStarts]_vars

\* ------------------------------------------------------------ Stop() while Start() loops
\* One Start(), handlers that return, timers, and Stop() called by another
\* task.  The clock goes on for as long as the thread sleeps, and the loop
\* takes no new Step once the clock has passed MaxTime, which keeps the clock
\* bounded without holding up a loop that has been told to stop.
TickLive ==
    /\ now < MaxTime \/ (pc = "Sleep" /\ NotYetDue(mintime, now))
    /\ now' = now + 1
    /\ UNCHANGED <<handlers, timers, Started, BusyLoop, mu, sched, calls, fired, dur>>
    /\ UNCHANGED <<test, callres>>

\* Stop() called by another task, with the history of where the thread was
StopLive ==
    /\ calls < MaxCalls
    /\ Started' = FALSE
    /\ callres' = "ok"
    /\ calls' = calls + 1
    /\ stopInWait' = (stopInWait \/ (pc = "Sleep" /\ mintime > now))
    /\ UNCHANGED <<handlers, timers, BusyLoop, mu, now, sched, fired, dur,
                   count, fireTimes, late, acc, pc2, nextId, nextSteps, nextFired, oldStack,
                   newStack, hpos>>

StartLoopLive ==
    /\ IsStarted => now <= MaxTime
    /\ StartLoop

\* what the thread does
ThreadLive ==
    \/ StartLoopLive
    \/ runAll
    \/ runAllInvoke
    \/ runAllDone
    \/ RandTimer
    \/ bestTimer
    \/ consumeTimer
    \/ Sleep
    \/ Invoke
    \/ bookkeep

NextLive ==
    \/ \E h \in {"nop"} : Use(h)
    \/ \E s \in Seconds, r \in BOOLEAN, h \in {"nop", "stop"} : TimerSeconds(s, r, h)
    \/ StopLive
    \/ TickLive
    \/ StartOnce
    \/ ThreadLive

\* The thread is scheduled whenever it can run, and time passes.
SpecLive ==
    /\ Init
    /\ [][NextLive]_vars
    /\ WF_vars(ThreadLive)
    /\ WF_vars(TickLive)

\* ------------------------------------------------------------ Next()
\* The host, between two Steps, registers timers and then one handler with
\* Next(), and calls Step() again and again.
\* Next: "a.AddTimerSeconds(0, handler)", a one-shot timer due at time.Now()
NextTick(handler) ==
    /\ pc = "idle"
    /\ nextId = "none"
    /\ calls < MaxCalls
    /\ TimerIDs \ DOMAIN timers # {}
    /\ Callable(handler)
    /\ LET id == NewTimerID(timers) IN
       /\ timers' = Put(timers, id, NewTimer(now + 0, 0, FALSE, handler))
       /\ fired' = [fired EXCEPT ![id] = 0]
       /\ dur' = [dur EXCEPT ![id] = "orig"]
       /\ nextId' = id
    /\ nextSteps' = 0
    /\ nextFired' = 0
    /\ callres' = "ok"
    /\ calls' = calls + 1
    /\ UNCHANGED <<handlers, Started, BusyLoop, mu, now, sched>>
    /\ UNCHANGED <<count, fireTimes, late, acc, pc2, stopInWait, oldStack, newStack, hpos>>

\* the timers registered before it
TimerBeforeNext(seconds, recurring) ==
    /\ pc = "idle"
    /\ nextId = "none"
    /\ TimerSeconds(seconds, recurring, "nop")

\* The host calls Step()
StepAfterNext ==
    /\ pc = "idle"
    /\ pc' = "runAll"
    /\ mode' = "Step"
    /\ result' = "none"
    /\ stopInStep' = FALSE
    /\ nextSteps' = IF nextId # "none" /\ nextSteps < 2 THEN nextSteps + 1 ELSE nextSteps
    /\ UNCHANGED <<env, i, mintimeid, mintime, log, stack0, firedNow>>
    /\ UNCHANGED <<count, fireTimes, late, acc, pc2, stopInWait, nextId, nextFired, callres, oldStack, newStack,
                   hpos>>

NextNext ==
    \/ \E h \in {"nop"} : NextTick(h)
    \/ \E s \in Seconds, r \in BOOLEAN : TimerBeforeNext(s, r)
    \/ Tick
    \/ StepAfterNext
    \/ runAll
    \/ runAllDone
    \/ RandTimer
    \/ bestTimer
    \/ consumeTimer
    \/ Sleep
    \/ Invoke
    \/ bookkeep

SpecNext == Init /\ [][NextNext]_vars

\* ------------------------------------------------------------ Handlers()
\* The host builds a stack with Use(), then another task calls
\* Handlers(h1..hk) while the thread steps.  There are no timers.
\* The argument lists of the call
NewStacks ==
    UNION {[1..n -> {"nop", "stop"}] : n \in 0..MaxHandlers}

\* the stack built before the call
UseBefore(h) ==
    /\ pc = "idle"
    /\ hpos = 0
    /\ Use(h)

\* Handlers: "a.handlers = make([]Handler, 0)"; no lock is taken
HandlersClear(hs) ==
    /\ hpos = 0
    /\ calls < MaxCalls
    /\ handlers' = <<>>
    /\ oldStack' = handlers
    /\ newStack' = hs
    /\ hpos' = 1
    /\ calls' = calls + 1
    /\ UNCHANGED <<timers, Started, BusyLoop, mu, now, sched, fired, dur, callres>>
    /\ UNCHANGED <<count, fireTimes, late, acc, pc2, stopInWait, nextId, nextSteps, nextFired>>

\* Handlers: "for _, handler := range handlers { a.Use(handler) }"; each Use
\* locks, appends and unlocks
HandlersUse ==
    /\ hpos >= 1
    /\ hpos <= Len(newStack)
    /\ mu = FALSE
    /\ Callable(newStack[hpos])
    /\ handlers' = Append(handlers, newStack[hpos])
    /\ hpos' = hpos + 1
    /\ callres' = "ok"
    /\ UNCHANGED <<timers, Started, BusyLoop, mu, now, sched, fired, dur, calls>>
    /\ UNCHANGED <<count, fireTimes, late, acc, pc2, stopInWait, nextId, nextSteps, nextFired,
                   oldStack, newStack>>

NextHandlers ==
    \/ \E h \in {"nop", "stop"} : UseBefore(h)
    \/ \E hs \in NewStacks : HandlersClear(hs)
    \/ HandlersUse
    \/ Step
    \/ runAll
    \/ runAllInvoke
    \/ runAllDone

SpecHandlers == Init /\ [][NextHandlers]_vars

\* ------------------------------------------------------------ a fixed set of timers
\* Timers registered with Timer() before the loop starts: any due time up to
\* MaxTime, one-shot or recurring with a positive period, handlers that
\* return.  RunLoop() then calls Step() again and again, in either mode.
Periods == 1..MaxSeconds

FixedTimers ==
    UNION {[D -> [time : 0..MaxTime, after : Periods, recurring : BOOLEAN,
                  handler : {"nop"}]] : D \in (SUBSET TimerIDs) \ {{}}}

InitFixed ==
    /\ handlers = <<>>
    /\ timers \in FixedTimers
    /\ Started = FALSE
    /\ BusyLoop \in BOOLEAN
    /\ mu = FALSE
    /\ now = 0
    /\ pc = "idle"
    /\ mode = "none"
    /\ i = 1
    /\ mintimeid = "t1"
    /\ mintime = 0
    /\ result = "none"
    /\ calls = 0
    /\ log = <<>>
    /\ stack0 = <<>>
    /\ firedNow = 0
    /\ fired = [x \in TimerIDs |-> 0]
    /\ dur = [x \in TimerIDs |-> "orig"]
    /\ stopInStep = FALSE
    /\ count = 0
    /\ fireTimes = <<>>
    /\ late = FALSE
    /\ callres = "none"
    /\ acc = "none"
    /\ pc2 = "idle"
    /\ stopInWait = FALSE
    /\ nextId = "none"
    /\ nextSteps = 0
    /\ nextFired = 0
    /\ oldStack = <<>>
    /\ newStack = <<>>
    /\ hpos = 0

\* The clock advances: freely up to MaxTime, and beyond it for as long as
\* the thread sleeps for a timer that is not yet due, up to Horizon.
TickFixed ==
    /\ now < MaxTime \/ (now < Horizon /\ pc = "Sleep" /\ NotYetDue(mintime, now))
    /\ now' = now + 1
    /\ UNCHANGED <<handlers, timers, Started, BusyLoop, mu, sched, calls, fired, dur>>
    /\ UNCHANGED <<test, callres>>

ThreadFixed ==
    \/ RunLoop
    \/ runAll
    \/ runAllDone
    \/ RandTimer
    \/ bestTimer
    \/ consumeTimer
    \/ Sleep
    \/ Invoke
    \/ bookkeep

NextFixed ==
    \/ TickFixed
    \/ ThreadFixed

\* The thread is scheduled whenever it can run, and time passes.
SpecFixed ==
    /\ InitFixed
    /\ [][NextFixed]_vars
    /\ WF_vars(ThreadFixed)
    /\ WF_vars(TickFixed)

\* ------------------------------------------------------------ the lock taken inside runAll's loop
\* The earlier runAll (src/unnamed/part_000): "for i < len(a.handlers) {
\* a.Lock(); defer a.Unlock(); a.Invoke(a.handlers[i]); i++ }".  The deferred
\* Unlock calls run when runAll returns, not at the end of an iteration.
\* The host registers handlers that return, and calls Step(); no timers.
\* runAll: "var i = 0"
runAllOld ==
    /\ pc = "runAll"
    /\ pc' = "runAllOld_loop"
    /\ i' = 1
    /\ log' = <<>>
    /\ stack0' = handlers
    /\ firedNow' = 0
    /\ stopInStep' = FALSE
    /\ UNCHANGED <<handlers, timers, Started, BusyLoop, mu, now, calls, fired, dur,
                   mode, mintimeid, mintime, result>>
    /\ UNCHANGED <<test, callres>>

\* one iteration: a.Lock(), which never returns when the mutex is held;
\* a.Invoke(a.handlers[i]); i++
runAllOldInvoke ==
    /\ pc = "runAllOld_loop"
    /\ runAllHasNext(i, handlers)
    /\ IF mu
       THEN /\ pc' = "blocked"
            /\ UNCHANGED <<mu, i, log, Started, stopInStep>>
       ELSE /\ mu' = TRUE
            /\ log' = Append(log, handlers[i])
            /\ stopInStep' = (stopInStep \/ handlers[i] = "stop")
            /\ Started' = StartedAfter(handlers[i], Started)
            /\ i' = i + 1
            /\ UNCHANGED pc
    /\ UNCHANGED <<handlers, timers, BusyLoop, now, calls, fired, dur,
                   mode, mintimeid, mintime, result, stack0, firedNow>>
    /\ UNCHANGED <<test, callres>>

\* runAll returns: the deferred Unlock calls run; Step returns at
\* "len(a.timers) == 0"
runAllOldDone ==
    /\ pc = "runAllOld_loop"
    /\ ~runAllHasNext(i, handlers)
    /\ DOMAIN timers = {}
    /\ mu' = FALSE
    /\ pc' = "idle"
    /\ result' = "returned"
    /\ UNCHANGED <<handlers, timers, Started, BusyLoop, now, calls, fired, dur,
                   mode, i, mintimeid, mintime, log, stack0, firedNow, stopInStep>>
    /\ UNCHANGED <<test, callres>>

NextLockInLoop ==
    \/ \E h \in {"nop", "stop"} : Use(h)
    \/ Tick
    \/ Step
    \/ runAllOld
    \/ runAllOldInvoke
    \/ runAllOldDone

SpecLockInLoop == Init /\ [][NextLockInLoop]_vars

\* ------------------------------------------------------------ properties
TimerPhase == {"RandTimer", "bestTimer", "consumeTimer", "Sleep", "Invoke", "bookkeep"}

\* C1: while runAll runs, the step handlers invoked so far are the first i-1
\* handlers of the stack, in the stack's order, and no timer has been looked
\* at or fired; once the Step is past runAll or has returned, the handlers it
\* invoked are exactly the stack, each once, in registration order.
C1_HandlersInOrder ==
    /\ pc = "runAll_loop" =>
          /\ stack0 = handlers
          /\ i <= Len(handlers) + 1
          /\ log = SubSeq(handlers, 1, i - 1)
          /\ firedNow = 0
    /\ pc \in TimerPhase => log = stack0
    /\ (pc = "idle" /\ mode = "Step" /\ result = "returned") => log = stack0

\* C1 witness: a Step() returned after invoking two different handlers
C1_Witness ==
    /\ pc = "idle" /\ mode = "Step" /\ result = "returned"
    /\ Len(log) = 2 /\ log[1] # log[2] /\ log = handlers

\* C2 (as stated): when a timer's handler is invoked, no timer in the
\* registry at that moment has a strictly earlier due time.
C2_NoEarlierAtInvoke ==
    [][(pc = "Invoke" /\ firedNow' # firedNow) =>
          \A x \in DOMAIN timers : timers[x].time >= timers[mintimeid].time]_vars

\* C2 (amended): no timer that is in the registry when bestTimer scans it
\* has a due time strictly earlier than the one selected, the selection is
\* what consumeTimer waits for and fires, and a timer registered after the
\* scan does not replace it.
C2_SoonestAtScan ==
    [][/\ (pc = "bestTimer" /\ pc' # pc) =>
             /\ \A x \in DOMAIN timers : timers[x].time >= mintime'
             /\ pc' = "consumeTimer"
       /\ (pc \in {"consumeTimer", "Sleep", "Invoke"}) =>
             /\ mintimeid' = mintimeid
             /\ mintime' = mintime
       /\ (pc = "Invoke" /\ firedNow' # firedNow) =>
             /\ mintime <= now
             /\ fired'[mintimeid] = 1
             /\ \A x \in TimerIDs \ {mintimeid} : fired'[x] = fired[x]]_vars

\* C2 witness: the timer registered second is the one fired, the other
\* one being due later
C2_Witness ==
    /\ pc = "bookkeep" /\ firedNow = 1 /\ mintimeid = "t2"
    /\ DOMAIN timers = {"t1", "t2"}
    /\ timers["t2"].time = mintime
    /\ timers["t1"].time > mintime
    /\ fired["t1"] = 0

\* C3: a one-shot timer that is in the registry has not been invoked,
\* except while the Step that invoked it is about to remove it.
C3_OneShotOnce ==
    \A id \in DOMAIN timers :
        timers[id].recurring = FALSE =>
            \/ fired[id] = 0
            \/ fired[id] = 1 /\ pc = "bookkeep" /\ mintimeid = id

\* C4: the bookkeeping after a recurring timer fired keeps the timer under
\* its id, with handler, period and recurring flag unchanged, and sets its
\* due time to the clock read at that point plus its current period.
C4_RecurringRescheduled ==
    [][(pc = "bookkeep" /\ pc' # pc /\ mintimeid \in DOMAIN timers
          /\ timers[mintimeid].recurring) =>
            /\ DOMAIN timers' = DOMAIN timers
            /\ timers'[mintimeid] =
                  [timers[mintimeid] EXCEPT !.time = now + timers[mintimeid].after]]_vars

\* C4 witness: a recurring timer fired late and was rescheduled from the
\* clock, not from its previous due time
C4_Witness ==
    /\ pc = "idle" /\ mode = "Step" /\ result = "returned" /\ firedNow = 1
    /\ mintimeid \in DOMAIN timers
    /\ timers[mintimeid].recurring
    /\ timers[mintimeid].after > 0
    /\ mintime < now
    /\ timers[mintimeid].time = now + timers[mintimeid].after

\* C5: a Step invokes at most one timer handler, and nothing the stepping
\* thread does changes a timer other than the one whose bookkeeping it is
\* doing.
C5_OneTimerPerStep ==
    [][/\ firedNow' <= 1
       /\ (pc' # pc \/ i' # i) =>
             \A id \in DOMAIN timers :
                 (pc # "bookkeep" \/ id # mintimeid) =>
                     (id \in DOMAIN timers' /\ timers'[id] = timers[id])]_vars

\* C5 witness: a Step() returned having fired one of two timers that were
\* due at the same time; the other is still registered and not invoked
C5_Witness ==
    /\ pc = "idle" /\ mode = "Step" /\ result = "returned" /\ firedNow = 1
    /\ \E id \in DOMAIN timers :
          /\ id # mintimeid
          /\ timers[id].time <= mintime
          /\ mintime <= now
          /\ fired[id] = 0

\* C6: a change of a timer's period leaves its pending due time as it was,
\* and the next reschedule of that timer uses the changed period.
C6_PeriodChangeKeepsDue ==
    [][\A id \in DOMAIN timers :
         /\ (id \in DOMAIN timers' /\ timers'[id].after # timers[id].after) =>
               /\ timers'[id].time = timers[id].time
               /\ dur'[id] = "changed"
         /\ (dur[id] = "changed" /\ dur'[id] = "used") =>
               /\ pc = "bookkeep"
               /\ timers'[id].time = now + timers[id].after]_vars

\* C6 witness: a timer that fired was rescheduled with a period that
\* SetDuration had changed
C6_Witness ==
    \E id \in DOMAIN timers :
        /\ dur[id] = "used"
        /\ fired[id] = 1
        /\ timers[id].time = now + timers[id].after

\* C7: Start() on a started scheduler returns at once: called by the host it
\* never enters the loop, called by a step handler of the running loop it
\* lets runAll go on to the next handler; the flag stays set, and the stack,
\* the registry and the lock are as they were.
C7_StartWhileRunning ==
    [][/\ (pc = "idle" /\ Started /\ pc' # pc) => pc' = "runAll"
       /\ (pc = "idle" /\ Started /\ pc' = "idle" /\ sched' # sched) =>
             /\ mode' = "Start" /\ result' = "returned"
             /\ Started'
             /\ handlers' = handlers /\ timers' = timers
             /\ log' = log /\ firedNow' = firedNow
       /\ (pc = "runAll_loop" /\ log' # log /\ handlers[i] = "start" /\ Started) =>
             /\ pc' = "runAll_loop" /\ i' = i + 1
             /\ Started'
             /\ handlers' = handlers /\ timers' = timers
             /\ mu' = mu /\ firedNow' = firedNow]_vars

\* C7 witness: the loop started by Start() has just run a handler that
\* called Start()
C7_Witness ==
    /\ pc = "runAll_loop" /\ mode = "Start" /\ Started
    /\ log = <<"start">> /\ i = 2

\* C8: once a handler has called Stop() in a Step driven by Start(), the
\* thread stays in that Step until it returns at its normal end (all step
\* handlers invoked) and Start() then returns; the only other ways out are a
\* panic and a handler that blocks.
C8_StopFinishesStep ==
    [][(mode = "Start" /\ stopInStep' /\ pc' # pc) =>
          \/ pc \in InStep /\ pc' \in InStep \ {"runAll"}
          \/ pc \in InStep /\ pc' = "IsStarted" /\ log' = stack0'
                /\ (pc = "bookkeep" \/ DOMAIN timers = {})
          \/ pc = "IsStarted" /\ pc' = "idle" /\ result' = "returned"
          \/ pc' = "idle" /\ result' = "panic"
          \/ pc' = "blocked"]_vars

\* C8 witness: Start() returned after a Step in which the first handler
\* called Stop() and the second one was still invoked
C8_Witness ==
    /\ pc = "idle" /\ mode = "Start" /\ result = "returned" /\ stopInStep
    /\ Len(log) = 2 /\ log[1] = "stop"

\* C9: in the recurring-timer scenario the handler is never invoked more
\* than 5 times, consecutive invocations are at least one period apart, and
\* when Start() has returned it was invoked exactly 5 times, the first time
\* not before one period; if the thread was never held up, the invocations
\* were at exactly 1, 2, 3, 4 and 5 periods and Start() returns at 5.
C9_FiveFirings ==
    /\ count <= StopAfter + 1
    /\ Len(fireTimes) = count
    /\ \A k \in 1..Len(fireTimes) :
          fireTimes[k] >= (IF k = 1 THEN 0 ELSE fireTimes[k - 1]) + Period
    /\ ~late => \A k \in 1..Len(fireTimes) : fireTimes[k] = k * Period
    /\ (pc = "idle" /\ result = "returned") =>
          /\ count = StopAfter + 1
          /\ now >= (StopAfter + 1) * Period
          /\ "t1" \in DOMAIN timers

\* C9 witness: Start() returned at clock 5 without the thread ever being held up
C9_Witness ==
    /\ pc = "idle" /\ result = "returned" /\ ~late
    /\ count = 5 /\ now = 5 /\ fireTimes = <<1, 2, 3, 4, 5>>

\* C10: invoking a step handler that panics ends the call the thread is in
\* (Start(), RunLoop() or Step()) with the panic: no further handler runs and
\* the mutex is released by the deferred Unlock.
C10_PanicPropagates ==
    [][(pc = "runAll_loop" /\ log' # log /\ handlers[i] = "panic") =>
          /\ pc' = "idle"
          /\ result' = "panic"
          /\ mu' = FALSE]_vars

\* C10 witness: Start() ended with the panic of its first step handler
C10_Witness ==
    /\ pc = "idle" /\ mode = "Start" /\ result = "panic"
    /\ log = <<"panic">> /\ handlers[1] = "panic"

C12_BookkeepingAfterFailure ==
    [][(pc = "Invoke" /\ firedNow' # firedNow) =>
          /\ pc' = "bookkeep"
          /\ mintimeid' = mintimeid]_vars

\* C13: in busy-loop mode the thread never sleeps; when the selected timer
\* is not yet due, consumeTimer returns from the Step at once: no timer
\* handler is invoked, the clock has not moved and the registry is as it was.
C13_BusyLoopReturns ==
    [][/\ pc' # "Sleep"
       /\ (pc = "consumeTimer" /\ pc' # pc /\ mintime > now) =>
             /\ pc' = StepReturn(mode)
             /\ firedNow' = 0
             /\ fired' = fired
             /\ timers' = timers
             /\ now' = now
       /\ (pc \in {"runAll", "runAll_loop", "RandTimer", "bestTimer"} /\ (pc' # pc \/ i' # i)) =>
             timers' = timers]_vars

\* C13 witness: a Step() returned without firing while the soonest timer,
\* still registered, is due later
C13_Witness ==
    /\ BusyLoop
    /\ pc = "idle" /\ mode = "Step" /\ result = "returned" /\ firedNow = 0
    /\ mintimeid \in DOMAIN timers
    /\ timers[mintimeid].time = mintime
    /\ \A x \in DOMAIN timers : timers[x].time >= mintime /\ fired[x] = 0
    /\ mintime > now

\* C14: Use, TimerSeconds and Timer called with a value that is not a
\* function end with validateAndWrapHandler's panic and leave the handler
\* stack, the registry, the mutex and the started flag as they were.
C14_InvalidHandlerRejected ==
    [][(\/ Use("notfunc")
        \/ \E s \in Seconds, r \in BOOLEAN : TimerSeconds(s, r, "notfunc")
        \/ \E id \in TimerIDs, s \in Seconds, r \in BOOLEAN :
              Timer(id, now + s, s, r, "notfunc")) =>
          /\ callres' = "invalid"
          /\ handlers' = handlers
          /\ timers' = timers
          /\ mu' = mu
          /\ Started' = Started]_vars

\* C14 witness: a call was rejected after a handler or a timer had been
\* registered, which is still there, alone
C14_Witness ==
    /\ callres = "invalid"
    /\ Len(handlers) + Cardinality(DOMAIN timers) = 1
    /\ "notfunc" \notin {handlers[k] : k \in 1..Len(handlers)}
    /\ "notfunc" \notin {timers[x].handler : x \in DOMAIN timers}

C16_RegistryExclusive ==
    /\ ~(pc \in {"bestTimer_locked", "bookkeep_locked"} /\ acc \in RegistryWriters)
    /\ ~(pc = "runAll_loop" /\ acc = "Use")

\* C17: a step handler that calls Use() gets its call done: runAll goes on
\* with the handler stack one longer.
C17_UseInsideHandler ==
    [][(pc = "runAll_loop" /\ log' # log /\ handlers[i] = "use") =>
          /\ pc' = "runAll_loop"
          /\ Len(handlers') = Len(handlers) + 1]_vars

\* C18: of two tasks that call Start() on a stopped scheduler, with no
\* Stop() called by anyone, at most one is in the stepping loop.
C18_OneLoop ==
    calls = 0 => ~(mode = "Start" /\ pc \in Looping /\ pc2 \in Looping)

\* C19: whenever Start() is looping and the started flag has been cleared,
\* Start() eventually returns, and until it does the thread only finishes
\* the Step it is in: it never goes from the loop test back into a Step.
C19_StopEndsStart ==
    /\ (mode = "Start" /\ pc # "idle" /\ ~Started) ~> (pc = "idle" /\ result = "returned")
    /\ [][(mode = "Start" /\ pc = "IsStarted" /\ ~Started /\ pc' # pc) => pc' = "idle"]_vars

\* C19 witness: Start() has returned after a Step that fired a timer and in
\* which no handler called Stop(): another task did
C19_Witness ==
    /\ pc = "idle" /\ mode = "Start" /\ result = "returned"
    /\ ~Started /\ ~stopInStep /\ firedNow = 1
    /\ calls = MaxCalls

\* C20: after a Stop() issued while the thread was sleeping for a timer not
\* yet due, the thread leaves the sleep no earlier than the selected due
\* time, invokes the selected timer's handler, reschedules or removes the
\* timer, and only then does Start() see the flag and return.
C20_StopDuringWait ==
    [][(stopInWait /\ pc' # pc) =>
          /\ pc = "Sleep" => (now >= mintime /\ pc' = "Invoke")
          /\ pc = "Invoke" =>
                /\ firedNow' = 1
                /\ fired'[mintimeid] = 1
                /\ pc' = "bookkeep"
          /\ pc = "bookkeep" =>
                /\ IF timers[mintimeid].recurring
                   THEN timers'[mintimeid].time = now + timers[mintimeid].after
                   ELSE mintimeid \notin DOMAIN timers'
                /\ pc' = "IsStarted"
          /\ pc = "IsStarted" => (pc' = "idle" /\ result' = "returned")
          /\ pc \in {"Sleep", "Invoke", "bookkeep", "IsStarted"}]_vars

\* C20 witness: Start() returned after the timer it was waiting for when
\* Stop() came was fired at its due time
C20_Witness ==
    /\ stopInWait
    /\ pc = "idle" /\ mode = "Start" /\ result = "returned"
    /\ firedNow = 1 /\ mintime <= now

\* C21: once a Step() called after Next(h) has returned, h was invoked
\* exactly once and its timer is no longer registered.
C21_NextOnNextStep ==
    (nextId # "none" /\ nextSteps >= 1 /\ pc = "idle" /\ result = "returned") =>
        (nextFired = 1 /\ nextId \notin DOMAIN timers)

\* C22: once Handlers(h1..hk) has been called, the stack a runAll finds when
\* it takes the lock is the complete old stack or the complete new stack,
\* and the handlers a runAll has run when it returns are the complete old
\* stack or the complete new stack.
C22_HandlersAtomic ==
    [][hpos' > 0 =>
          /\ pc' = "runAll_loop" => stack0' \in {oldStack', newStack'}
          /\ (pc = "runAll_loop" /\ pc' # "runAll_loop") => log \in {oldStack', newStack'}]_vars

\* C23: after Step's emptiness check saw a timer, bestTimer finds the
\* registry non-empty and its scan returns a timer that is in the registry.
C23_ScanFindsTimer ==
    [][/\ (pc = "RandTimer" /\ pc' # pc) => (DOMAIN timers # {} /\ pc' = "bestTimer")
       /\ (pc = "bestTimer" /\ pc' # pc) => mintimeid' \in DOMAIN timers']_vars

\* C24: RunLoop() never returns, whatever the flag is and however often
\* Stop() is called: it only ends by a panic that unwinds it; and no step
\* of RunLoop outside a handler's body changes a.Started.
C24_RunLoopIgnoresFlag ==
    /\ [](mode = "RunLoop" => result # "returned")
    /\ [][(mode = "RunLoop" /\ pc # "idle" /\ pc' = "idle") => result' = "panic"]_vars
    /\ [][(mode' = "RunLoop" /\ sched' # sched /\ pc \notin {"runAll_loop", "Invoke"})
              => Started' = Started]_vars

\* C24 witness: a timer handler called Stop() during a Step of RunLoop, the
\* flag is off, and RunLoop is about to step again
C24_Witness ==
    /\ mode = "RunLoop" /\ pc = "runAll"
    /\ stopInStep /\ firedNow = 1
    /\ ~Started

\* C25: when the timer bestTimer selected is no longer in the registry, the
\* rest of the Step (the wait, the invocation, the bookkeeping) goes on
\* without a fault and leaves the timer absent.
C25_RemovedTimerTolerated ==
    [][(/\ pc \in {"consumeTimer", "Sleep", "Invoke", "bookkeep"}
        /\ mintimeid \notin DOMAIN timers
        /\ pc' # pc)
          => (result' # "panic" /\ mintimeid \notin DOMAIN timers')]_vars

\* C26: when a timer's handler is invoked, the clock is at or past the due
\* time the registry holds for that timer id at that moment.
C26_NotBeforeStoredDue ==
    [][(pc = "Invoke" /\ pc' # pc /\ mintimeid \in DOMAIN timers)
          => timers[mintimeid].time <= now]_vars

\* C27: with a fixed set of timers, Step() called again and again and a
\* clock that advances, every timer that is in the registry is eventually
\* fired.
C27_EveryTimerFires ==
    \A id \in TimerIDs : (id \in DOMAIN timers) ~> (fired[id] = 1)

\* C27 witness: a one-shot timer has just been fired although the other
\* timer, a recurring one, fired before it and was rescheduled
C27_Witness ==
    /\ pc = "bookkeep"
    /\ DOMAIN timers = TimerIDs
    /\ ~timers[mintimeid].recurring /\ fired[mintimeid] = 1
    /\ \E id \in TimerIDs \ {mintimeid} :
          /\ timers[id].recurring
          /\ fired[id] = 1
          /\ timers[id].time > timers[mintimeid].time

\* C28: after a handler's panic has unwound Start(), the scheduler is not
\* started and the mutex is free, and the next Start() enters the loop.
C28_StoppedAfterFailure ==
    /\ []((pc = "idle" /\ mode = "Start" /\ result = "panic") => (~Started /\ ~mu))
    /\ [][(pc = "idle" /\ mode = "Start" /\ result = "panic" /\ mode' = "Start"
              /\ sched' # sched) => pc' = "IsStarted"]_vars

\* C29: with step handlers that return, runAll never waits for the mutex
\* its own Step holds: every step runAll takes is another iteration or its
\* return, after which Step returns.
C29_RunAllNeverSelfLocks ==
    [][(pc = "runAllOld_loop" /\ pc' # pc) => (pc' = "idle" /\ result' = "returned")]_vars

====
